---- MODULE Spec2Model ----
(***************************************************************************)
(* Ferry queue simulator (ferry-backend.js): the stepped simulation loop   *)
(* SimuladorFerries.processar with its vessels (Embarcacao), its pending   *)
(* queue of vehicles (Veiculo), its event log and its final metrics.       *)
(*                                                                         *)
(* Numbers.  Times are minutes.  Fractions of one (percentualPico,         *)
(* taxaFalhas, the values of Math.random) are kept in hundredths.  A       *)
(* JavaScript quotient is kept exact, as a record [k, n, d] (see Div).     *)
(* The vehicle attribute "tipo" is drawn and stored by the code and read   *)
(* by no operation of the simulator; it is left out of the vehicle record. *)
(***************************************************************************)
EXTENDS Integers, Sequences, FiniteSets, TLC

VARIABLES
    config,        \* this.config of the simulator under execution
    embarcacoes,   \* this.embarcacoes: sequence of Embarcacao records
    fila,          \* this.fila: pending queue, sequence of Veiculo records
    processados,   \* this.veiculosProcessados: processed history
    eventos,       \* this.eventos: event log
    horarioAtual,  \* this.horarioAtual: simulation clock, minutes
    pc,            \* position inside processar()
    idx,           \* position of the forEach over this.embarcacoes (1-based)
    ticks,         \* iterations of the main loop started so far
    proximoId,     \* serial of the next Veiculo object constructed
    temporizadores,\* pending setTimeout repair callbacks (vessel positions, FIFO)
    resultados,    \* value returned by processar(), NaoRetornou before that
    anterior,      \* result of an earlier invocation with the same config
    sorteios,      \* values Math.random() returned to the run under execution
    metodo,        \* the method the caller invoked on the simulator
    percentualReservas, \* argument of simularComReservas, hundredths
    semReservas,   \* simularComReservas: baseline result and its draws
    melhorias,     \* simularComReservas: the comparison it returns
    padrao,        \* the shared object CONFIG of the module
    resultadoSemReserva, \* gerarRelatorio: result of its normal simulation
    relatorio      \* gerarRelatorio: the report it returns

vars == << config, embarcacoes, fila, processados, eventos, horarioAtual, pc,
           idx, ticks, proximoId, temporizadores, resultados, anterior,
           sorteios, metodo, percentualReservas, semReservas, melhorias,
           padrao, resultadoSemReserva, relatorio >>

----------------------------------------------------------------------------
(* Bounds of the model *)

\* Iterations of the main loop explored for a run whose clock never reaches
\* the end of the window (step size <= 0).
MaxTicks == 3

----------------------------------------------------------------------------
(* Program constants *)

\* Veiculo: horarioEmbarque / horarioDesembarque before they are assigned.
null == -1

\* gerarChegadaVeiculos: the peak multiplier 2.5, as the fraction 5/2.
MultiplicadorPicoNum == 5
MultiplicadorPicoDen == 2

\* gerarChegadaVeiculos: Math.random() * 60, minutes inside the hour.
MinutosPorHora == 60

\* processar: Math.random() < taxaFalhas / 1000.
DivisorFalhas == 1000

\* processar: the delay given to setTimeout for the repair, 30.
TempoReparo == 30

\* The defaults of the shared CONFIG object (fractions in hundredths).
CONFIG ==
    [ numEmbarcacoes         |-> 4,
      capacidadeVeiculos     |-> 50,
      frequenciaSaidaMinutos |-> 60,
      horarioInicio          |-> 6,
      horarioFim             |-> 22,
      horasOperacao          |-> 16,
      veiculosDiarios        |-> 1200,
      percentualPico         |-> 40,
      tempoTravessiaMinutos  |-> 80,
      manutencaoDias         |-> 30,
      manutencaoHoras        |-> 4,
      taxaFalhas             |-> 5,
      picos                  |-> << [inicio |-> 7, fim |-> 9],
                                    [inicio |-> 17, fim |-> 19] >> ]

\* The values Math.random() may return, in hundredths: 0 and 0.5.
MathRandom == {0, 50}

----------------------------------------------------------------------------
(* JavaScript arithmetic *)

Min(a, b) == IF a <= b THEN a ELSE b
Max(a, b) == IF a >= b THEN a ELSE b

\* n / d as JavaScript computes it: a finite quotient (kept exact, d > 0),
\* NaN for 0/0, +Infinity or -Infinity for x/0.
Div(n, d) ==
    IF d = 0
      THEN IF n = 0 THEN [k |-> "NaN", n |-> 0, d |-> 0]
           ELSE IF n > 0 THEN [k |-> "Infinity", n |-> 1, d |-> 0]
           ELSE [k |-> "-Infinity", n |-> -1, d |-> 0]
      ELSE IF d > 0 THEN [k |-> "num", n |-> n, d |-> d]
           ELSE [k |-> "num", n |-> -n, d |-> -d]

\* Math.round of a quotient: floor(x + 1/2); NaN and the infinities are kept.
MathRound(q) ==
    IF q.k = "num" THEN Div((2 * q.n + q.d) \div (2 * q.d), 1) ELSE q

\* Array.prototype.slice(0, end): a negative end counts from the end.
Slice0(s, end) ==
    LET e == IF end < 0 THEN Max(Len(s) + end, 0) ELSE Min(end, Len(s))
    IN  SubSeq(s, 1, e)

\* Array.prototype.splice(0, n): the array without its first n elements
\* (a negative n removes nothing).
Splice0(s, n) == SubSeq(s, Min(Max(n, 0), Len(s)) + 1, Len(s))

\* reduce((a, b) => a + b, 0) over s[lo..hi], halving the range.
RECURSIVE SumRange(_, _, _)
SumRange(s, lo, hi) ==
    IF lo > hi THEN 0
    ELSE IF lo = hi THEN s[lo]
    ELSE LET mid == (lo + hi) \div 2
         IN  SumRange(s, lo, mid) + SumRange(s, mid + 1, hi)

SumSeq(s) == SumRange(s, 1, Len(s))

\* Math.max(...s) over the non-empty s[lo..hi], halving the range.
RECURSIVE MaxRange(_, _, _)
MaxRange(s, lo, hi) ==
    IF lo = hi THEN s[lo]
    ELSE LET mid == (lo + hi) \div 2
         IN  Max(MaxRange(s, lo, mid), MaxRange(s, mid + 1, hi))

MaxSeq(s) == MaxRange(s, 1, Len(s))

NaN == [k |-> "NaN", n |-> 0, d |-> 0]

\* -q for a quotient q.
Oposto(q) ==
    IF q.k = "num" THEN [k |-> "num", n |-> -q.n, d |-> q.d]
    ELSE IF q.k = "Infinity" THEN [k |-> "-Infinity", n |-> -1, d |-> 0]
    ELSE IF q.k = "-Infinity" THEN [k |-> "Infinity", n |-> 1, d |-> 0]
    ELSE q

\* a + b for quotients: NaN is absorbing, the infinities of opposite sign
\* add up to NaN.
Soma(a, b) ==
    IF a.k = "NaN" \/ b.k = "NaN" THEN NaN
    ELSE IF a.k = "num" /\ b.k = "num" THEN Div(a.n * b.d + b.n * a.d, a.d * b.d)
    ELSE IF a.k = "num" THEN b
    ELSE IF b.k = "num" THEN a
    ELSE IF a.k = b.k THEN a
    ELSE NaN

\* a - b for quotients.
Menos(a, b) == Soma(a, Oposto(b))

\* a / b for finite quotients a and b (b may be zero).
Quociente(a, b) == Div(a.n * b.d, a.d * b.n)

\* q / c for a quotient q and an integer c >= 0.
Sobre(q, c) == IF q.k = "num" THEN Div(q.n, q.d * c) ELSE q

\* Number.prototype.toFixed(2) followed by + '%': the text of a finite
\* number is kept as its count of hundredths, rounded half away from zero;
\* NaN and the infinities give "NaN%", "Infinity%", "-Infinity%".
ToFixed2(q) ==
    IF q.k = "num"
      THEN LET abs == IF q.n < 0 THEN -q.n ELSE q.n
               c   == (2 * 100 * abs + q.d) \div (2 * q.d)
           IN  [texto |-> "num%", centesimos |-> IF q.n < 0 THEN -c ELSE c]
      ELSE [texto |-> q.k \o "%", centesimos |-> 0]

----------------------------------------------------------------------------
(* Configurations *)

\* { ...CONFIG, ...config }: the fields of the override replace the defaults.
Mescla(base, over) ==
    [f \in (DOMAIN base) \cup (DOMAIN over) |->
        IF f \in DOMAIN over THEN over[f] ELSE base[f]]

\* The overrides given to the constructor in the runs explored.  Every run
\* keeps the window short (the simulated day of the defaults has 16 ticks).
Overrides ==
    {  \* one ordinary tick and one peak tick, two vessels, failures possible
       [horarioFim |-> 8, veiculosDiarios |-> 16, numEmbarcacoes |-> 2],
       \* 120 vehicles arrive in one tick, two vessels, no failures
       [horarioFim |-> 7, veiculosDiarios |-> 1920, numEmbarcacoes |-> 2,
        taxaFalhas |-> 0],
       \* no arrivals
       [horarioFim |-> 8, veiculosDiarios |-> 0, numEmbarcacoes |-> 2],
       \* capacity override
       [horarioFim |-> 7, veiculosDiarios |-> 48, numEmbarcacoes |-> 1,
        capacidadeVeiculos |-> 2, taxaFalhas |-> 0],
       \* step sizes that do and do not divide the window
       [horarioFim |-> 7, veiculosDiarios |-> 16, numEmbarcacoes |-> 1,
        frequenciaSaidaMinutos |-> 45, tempoTravessiaMinutos |-> 30,
        taxaFalhas |-> 0],
       [horarioFim |-> 8, veiculosDiarios |-> 16, numEmbarcacoes |-> 1,
        frequenciaSaidaMinutos |-> 120, taxaFalhas |-> 0],
       \* a step shorter than the hour the arrival instants are spread over
       [horarioFim |-> 7, veiculosDiarios |-> 16, numEmbarcacoes |-> 1,
        frequenciaSaidaMinutos |-> 20],
       \* a window that reaches the first scheduled maintenance (day 30)
       [horarioInicio |-> 720, horarioFim |-> 726, veiculosDiarios |-> 16,
        numEmbarcacoes |-> 1, frequenciaSaidaMinutos |-> 120,
        manutencaoHoras |-> 2, taxaFalhas |-> 0],
       \* a window in which a vessel may fail before its maintenance is due
       [horarioInicio |-> 718, horarioFim |-> 724, veiculosDiarios |-> 16,
        numEmbarcacoes |-> 1, frequenciaSaidaMinutos |-> 120,
        manutencaoHoras |-> 2],
       \* a maintenance interval of one day, the window starting on day 1
       [horarioInicio |-> 24, horarioFim |-> 26, veiculosDiarios |-> 16,
        numEmbarcacoes |-> 1, manutencaoDias |-> 1, manutencaoHoras |-> 1,
        taxaFalhas |-> 0],
       \* degenerate values
       [horarioFim |-> 7, veiculosDiarios |-> 16, numEmbarcacoes |-> 0],
       [horarioFim |-> 7, veiculosDiarios |-> 16, numEmbarcacoes |-> 1,
        capacidadeVeiculos |-> 0, taxaFalhas |-> 0],
       [horarioFim |-> 7, veiculosDiarios |-> 16, numEmbarcacoes |-> 1,
        frequenciaSaidaMinutos |-> 0, taxaFalhas |-> 0],
       [horarioFim |-> 6, veiculosDiarios |-> 16, numEmbarcacoes |-> 1],
       [horarioFim |-> 6, veiculosDiarios |-> 0, numEmbarcacoes |-> 1],
       [horarioInicio |-> 8, horarioFim |-> 6, veiculosDiarios |-> 16,
        numEmbarcacoes |-> 1],
       [horarioFim |-> 7, veiculosDiarios |-> 16, numEmbarcacoes |-> 1,
        horasOperacao |-> 0, taxaFalhas |-> 0] }

Configs == { Mescla(CONFIG, o) : o \in Overrides }

----------------------------------------------------------------------------
(* Veiculo and Embarcacao *)

\* new Veiculo(tipo, horarioChegada); the id is the serial of the object.
Veiculo(id, horarioChegada) ==
    [ id                 |-> id,
      horarioChegada     |-> horarioChegada,
      horarioEmbarque    |-> null,
      horarioDesembarque |-> null,
      tempoEspera        |-> 0 ]

\* new Embarcacao(id): capacity and maintenance interval are read from the
\* shared CONFIG object, not from the configuration of the simulator.
Embarcacao(id) ==
    [ id                |-> id,
      capacidade        |-> CONFIG.capacidadeVeiculos,
      veiculosAbordo    |-> << >>,
      disponivel        |-> TRUE,
      emManutencao      |-> FALSE,
      ultimaManutencao  |-> 0,
      proximaManutencao |-> CONFIG.manutencaoDias * 24 * 60,
      viagensRealizadas |-> 0,
      tempoTotalOcupado |-> 0 ]

\* Variant of Embarcados that ignores the free space and takes every
\* vehicle offered (slice without its end).
Embarcados_SemLimite(emb, veiculos, t) ==
    [i \in 1..Len(veiculos) |->
        [veiculos[i] EXCEPT
            !.horarioEmbarque = t,
            !.tempoEspera     = t - veiculos[i].horarioChegada]]

\* Variant of Embarcados that leaves one free place unused
\* (slice(0, espacoDisponivel - 1)).
Embarcados_UmAMenos(emb, veiculos, t) ==
    LET espacoDisponivel == emb.capacidade - Len(emb.veiculosAbordo)
        veiculosEmbarcar == Slice0(veiculos, Max(espacoDisponivel - 1, 0))
    IN  [i \in 1..Len(veiculosEmbarcar) |->
            [veiculosEmbarcar[i] EXCEPT
                !.horarioEmbarque = t,
                !.tempoEspera     = t - veiculosEmbarcar[i].horarioChegada]]

\* Variant of Embarcados that takes only the first vehicle offered
\* (slice(0, 1)).
Embarcados_SoOPrimeiro(emb, veiculos, t) ==
    LET espacoDisponivel == emb.capacidade - Len(emb.veiculosAbordo)
        veiculosEmbarcar == Slice0(veiculos, Min(espacoDisponivel, 1))
    IN  [i \in 1..Len(veiculosEmbarcar) |->
            [veiculosEmbarcar[i] EXCEPT
                !.horarioEmbarque = t,
                !.tempoEspera     = t - veiculosEmbarcar[i].horarioChegada]]

\* Embarcacao.embarcar: the vehicles taken from the front of `veiculos`,
\* each with its boarding time and waiting time set.
Embarcados(emb, veiculos, t) ==
    LET espacoDisponivel == emb.capacidade - Len(emb.veiculosAbordo)
        veiculosEmbarcar == Slice0(veiculos, espacoDisponivel)
    IN  [i \in 1..Len(veiculosEmbarcar) |->
            [veiculosEmbarcar[i] EXCEPT
                !.horarioEmbarque = t,
                !.tempoEspera     = t - veiculosEmbarcar[i].horarioChegada]]

\* Embarcacao.embarcar: the vessel after boarding.
embarcar(emb, veiculos, t) ==
    [emb EXCEPT !.veiculosAbordo = @ \o Embarcados(emb, veiculos, t)]

\* Embarcacao.desembarcar: the vehicles returned, with their landing time.
Desembarcados(emb, t) ==
    [i \in 1..Len(emb.veiculosAbordo) |->
        [emb.veiculosAbordo[i] EXCEPT !.horarioDesembarque = t]]

\* Variant of desembarcar that does not count the trip.
desembarcar_SemContar(emb, t) == [emb EXCEPT !.veiculosAbordo = << >>]

\* Variant of desembarcar that leaves the vehicles on board.
desembarcar_NaoEsvazia(emb, t) == [emb EXCEPT !.viagensRealizadas = @ + 1]

\* Embarcacao.desembarcar: the vessel after landing.
desembarcar(emb, t) ==
    [emb EXCEPT !.veiculosAbordo = << >>,
                !.viagensRealizadas = @ + 1]

\* Variant of necessitaManutencao that does not compare the clock with
\* proximaManutencao.
necessitaManutencao_SemPrazo(emb, t) ==
    ~emb.emManutencao

necessitaManutencao(emb, t) ==
    t >= emb.proximaManutencao /\ ~emb.emManutencao

iniciarManutencao(emb, t) ==
    [emb EXCEPT !.emManutencao = TRUE,
                !.disponivel = FALSE,
                !.ultimaManutencao = t]

\* Variant of finalizarManutencao that does not reschedule the next maintenance.
finalizarManutencao_SemReagendar(emb, t) ==
    [emb EXCEPT !.emManutencao = FALSE, !.disponivel = TRUE]

finalizarManutencao(emb, t) ==
    [emb EXCEPT !.emManutencao = FALSE,
                !.disponivel = TRUE,
                !.proximaManutencao = t + CONFIG.manutencaoDias * 24 * 60]

----------------------------------------------------------------------------
(* SimuladorFerries: arrivals *)

ehHorarioPico(cfg, horario) ==
    LET hora == horario \div 60
    IN  \E i \in 1..Len(cfg.picos) :
            hora >= cfg.picos[i].inicio /\ hora < cfg.picos[i].fim

\* gerarChegadaVeiculos: veiculosEstaHora, a quotient (possibly NaN or
\* infinite when horasOperacao is 0).
veiculosEstaHora(cfg, horario) ==
    IF ehHorarioPico(cfg, horario)
      THEN MathRound(Div(cfg.veiculosDiarios * MultiplicadorPicoNum,
                         cfg.horasOperacao * MultiplicadorPicoDen))
      ELSE MathRound(Div(cfg.veiculosDiarios, cfg.horasOperacao))

\* The number of iterations of `for (i = 0; i < veiculosEstaHora; i++)`
\* when the loop ends (i < NaN is false).
Iteracoes(q) == IF q.k = "num" /\ q.n > 0 THEN q.n ELSE 0

\* The loop never ends when veiculosEstaHora is +Infinity.
LacoSemFim(q) == q.k = "Infinity"

\* The arrival instants Math.random() * 60 can add to the clock.
Desvios == { (r * MinutosPorHora) \div 100 : r \in MathRandom }

RECURSIVE Ordenado(_)
Ordenado(S) ==
    IF S = {} THEN << >>
    ELSE LET m == CHOOSE x \in S : \A y \in S : x <= y
         IN  << m >> \o Ordenado(S \ {m})

\* The sorted sequences of n arrival offsets (the batch is sorted by
\* arrival time before it is returned).
RECURSIVE DesviosOrdenados(_, _)
DesviosOrdenados(ds, n) ==
    IF ds = << >> THEN (IF n = 0 THEN {<< >>} ELSE {})
    ELSE UNION { { [i \in 1..j |-> Head(ds)] \o resto :
                     resto \in DesviosOrdenados(Tail(ds), n - j) } :
                 j \in 0..n }

\* gerarChegadaVeiculos: the batches it can return at clock t, the first
\* vehicle of the batch being object number `id`.
gerarChegadaVeiculos(cfg, t, id) ==
    LET n == Iteracoes(veiculosEstaHora(cfg, t))
    IN  { [i \in 1..n |-> Veiculo(id + i - 1, t + d[i])] :
            d \in DesviosOrdenados(Ordenado(Desvios), n) }

----------------------------------------------------------------------------
(* SimuladorFerries: construction and the main loop *)

\* processar: horarioFinal.
horarioFinal(cfg) == cfg.horarioFim * 60

\* processar: the `resultados` object as it is created.
ResultadosIniciais ==
    [ tempoSimulacao        |-> Div(0, 1),
      veiculosProcessados   |-> 0,
      veiculosEmFila        |-> 0,
      tempoMedioEspera      |-> Div(0, 1),
      tempoMaximoEspera     |-> 0,
      utilizacaoEmbarcacoes |-> << >>,
      viagensRealizadas     |-> 0,
      eventos               |-> << >> ]

\* The shared CONFIG after `this.config = { ...CONFIG, ...config }`: the
\* spread copies the defaults into a new object, CONFIG stays as it was.
PadraoAposConstrutor(p, cfg) == p

\* The constructor, followed by the entry into processar().
Construido(cfg) ==
    /\ config = cfg
    /\ padrao = PadraoAposConstrutor(CONFIG, cfg)
    /\ embarcacoes = [i \in 1..Max(cfg.numEmbarcacoes, 0) |-> Embarcacao(i)]
    /\ fila = << >>
    /\ processados = << >>
    /\ eventos = << >>
    /\ horarioAtual = cfg.horarioInicio * 60
    /\ pc = "loop"
    /\ idx = 1
    /\ ticks = 0
    /\ proximoId = 1
    /\ temporizadores = << >>
    /\ resultados = ResultadosIniciais
    /\ sorteios = << >>

\* The caller invokes method m; p is the argument of simularComReservas.
Chamada(m, p) ==
    /\ metodo = m
    /\ percentualReservas = p
    /\ semReservas = << >>
    /\ melhorias = << >>
    /\ resultadoSemReserva = << >>
    /\ relatorio = << >>

Init ==
    /\ \E cfg \in Configs : Construido(cfg)
    /\ anterior = << >>
    /\ Chamada("processar", 0)

\* The event pushed when the batch is not empty.
EventoChegada(t, novos, total) ==
    IF Len(novos) > 0
      THEN << [tipo |-> "chegada", horario |-> t,
               quantidade |-> Len(novos), filaTotal |-> total] >>
      ELSE << >>

\* One pass of `while (this.horarioAtual < horarioFinal)`: arrivals.
GerarChegada ==
    /\ pc = "loop"
    /\ horarioAtual < horarioFinal(config)
    /\ ticks < MaxTicks
    /\ ~LacoSemFim(veiculosEstaHora(config, horarioAtual))
    /\ \E novosVeiculos \in gerarChegadaVeiculos(config, horarioAtual, proximoId) :
         /\ fila' = fila \o novosVeiculos
         /\ sorteios' = sorteios \o
               [i \in 1..Len(novosVeiculos) |->
                   novosVeiculos[i].horarioChegada - horarioAtual]
         /\ eventos' = eventos \o
               EventoChegada(horarioAtual, novosVeiculos, Len(fila) + Len(novosVeiculos))
         /\ proximoId' = proximoId + Len(novosVeiculos)
    /\ pc' = "forEach"
    /\ idx' = 1
    /\ ticks' = ticks + 1
    /\ UNCHANGED << config, embarcacoes, processados, horarioAtual,
                    temporizadores, resultados, anterior,
                    metodo, percentualReservas, semReservas, melhorias,
                    padrao, resultadoSemReserva, relatorio >>

\* gerarChegadaVeiculos with veiculosEstaHora = Infinity: the for loop
\* creates vehicles without end and processar never goes on.
GerarSemFim ==
    /\ pc = "loop"
    /\ horarioAtual < horarioFinal(config)
    /\ ticks < MaxTicks
    /\ LacoSemFim(veiculosEstaHora(config, horarioAtual))
    /\ pc' = "gerando"
    /\ ticks' = ticks + 1
    /\ UNCHANGED << config, embarcacoes, fila, processados, eventos, horarioAtual,
                    idx, proximoId, temporizadores, resultados, anterior,
                    sorteios, metodo, percentualReservas, semReservas, melhorias,
                    padrao, resultadoSemReserva, relatorio >>

\* Math.random() < this.config.taxaFalhas / 1000, r and taxaFalhas in hundredths.
SorteioFalha(cfg, r) == r * DivisorFalhas < cfg.taxaFalhas

\* The vessel after the scheduled-maintenance check that opens the callback.
AposVerificacao(emb, t) ==
    IF necessitaManutencao(emb, t) THEN iniciarManutencao(emb, t) ELSE emb

EventosManutencaoInicio(emb, t) ==
    IF necessitaManutencao(emb, t)
      THEN << [tipo |-> "manutencao_inicio", embarcacao |-> emb.id, horario |-> t] >>
      ELSE << >>

\* if (embarcacao.emManutencao) { ... return; }
ManutencaoTerminou(cfg, emb, t) ==
    t >= emb.ultimaManutencao + cfg.manutencaoHoras * 60

\* The callback of the forEach for a vessel that is (or just entered) in maintenance.
EmManutencao ==
    /\ pc = "forEach"
    /\ idx <= Len(embarcacoes)
    /\ LET e0 == embarcacoes[idx]
           e1 == AposVerificacao(e0, horarioAtual)
           fim == ManutencaoTerminou(config, e1, horarioAtual)
       IN  /\ e1.emManutencao
           /\ embarcacoes' = [embarcacoes EXCEPT ![idx] =
                 IF fim THEN finalizarManutencao(e1, horarioAtual) ELSE e1]
           /\ eventos' = eventos \o EventosManutencaoInicio(e0, horarioAtual) \o
                 (IF fim THEN << [tipo |-> "manutencao_fim", embarcacao |-> e1.id,
                                  horario |-> horarioAtual] >>
                         ELSE << >>)
    /\ idx' = idx + 1
    /\ UNCHANGED << config, fila, processados, horarioAtual, pc, ticks, proximoId,
                    temporizadores, resultados, anterior,
                    sorteios, metodo, percentualReservas, semReservas, melhorias,
                    padrao, resultadoSemReserva, relatorio >>

\* The callback for a vessel out of maintenance whose failure draw succeeds.
Falha ==
    /\ pc = "forEach"
    /\ idx <= Len(embarcacoes)
    /\ ~AposVerificacao(embarcacoes[idx], horarioAtual).emManutencao
    /\ \E r \in MathRandom :
         /\ SorteioFalha(config, r)
         /\ sorteios' = Append(sorteios, r)
    /\ embarcacoes' = [embarcacoes EXCEPT ![idx].disponivel = FALSE]
    /\ eventos' = Append(eventos, [tipo |-> "falha",
                                   embarcacao |-> embarcacoes[idx].id,
                                   horario |-> horarioAtual])
    /\ temporizadores' = Append(temporizadores, idx)
    /\ idx' = idx + 1
    /\ UNCHANGED << config, fila, processados, horarioAtual, pc, ticks, proximoId,
                    resultados, anterior,
                    metodo, percentualReservas, semReservas, melhorias,
                    padrao, resultadoSemReserva, relatorio >>

\* Variant of PodeEmbarcar that does not look at the queue length.
PodeEmbarcar_SemFila(emb, f) ==
    emb.disponivel /\ Len(emb.veiculosAbordo) = 0

\* Variant of PodeEmbarcar that does not look at embarcacao.disponivel.
PodeEmbarcar_SemDisponivel(emb, f) ==
    Len(f) > 0 /\ Len(emb.veiculosAbordo) = 0

\* embarcacao.disponivel && this.fila.length > 0 && veiculosAbordo.length === 0
PodeEmbarcar(emb, f) ==
    emb.disponivel /\ Len(f) > 0 /\ Len(emb.veiculosAbordo) = 0

\* Variant of FilaAposEmbarque that removes one vehicle more than boarded
\* (splice(0, embarcados + 1)).
FilaAposEmbarque_RemoveUmAMais(emb, f, t) ==
    Splice0(f, Len(Embarcados(emb, f, t)) + 1)

\* Variant of FilaAposEmbarque that removes one vehicle fewer than boarded
\* (splice(0, embarcados - 1)).
FilaAposEmbarque_RemoveUmAMenos(emb, f, t) ==
    LET emb2 == Embarcados(emb, f, t)
        marcada == [i \in 1..Len(f) |-> IF i <= Len(emb2) THEN emb2[i] ELSE f[i]]
    IN  Splice0(marcada, Len(emb2) - 1)

\* Variant of FilaAposEmbarque that leaves the boarded vehicles in the queue
\* (no splice).
FilaAposEmbarque_NaoRemove(emb, f, t) ==
    LET emb2 == Embarcados(emb, f, t)
    IN  [i \in 1..Len(f) |-> IF i <= Len(emb2) THEN emb2[i] ELSE f[i]]

\* this.fila after embarcar (which writes into the vehicles it takes, the
\* same objects the queue holds) and splice(0, embarcados).
FilaAposEmbarque(emb, f, t) ==
    LET emb2 == Embarcados(emb, f, t)
        marcada == [i \in 1..Len(f) |-> IF i <= Len(emb2) THEN emb2[i] ELSE f[i]]
    IN  Splice0(marcada, Len(emb2))

\* The callback for a vessel that boards: embarcar, splice, 'embarque' event.
Embarque ==
    /\ pc = "forEach"
    /\ idx <= Len(embarcacoes)
    /\ ~AposVerificacao(embarcacoes[idx], horarioAtual).emManutencao
    /\ \E r \in MathRandom :
         /\ ~SorteioFalha(config, r)
         /\ sorteios' = Append(sorteios, r)
    /\ PodeEmbarcar(embarcacoes[idx], fila)
    /\ LET emb == embarcacoes[idx]
           embarcados == Len(Embarcados(emb, fila, horarioAtual))
       IN  /\ embarcacoes' = [embarcacoes EXCEPT ![idx] = embarcar(emb, fila, horarioAtual)]
           /\ fila' = FilaAposEmbarque(emb, fila, horarioAtual)
           /\ eventos' = Append(eventos,
                 [tipo |-> "embarque", embarcacao |-> emb.id, horario |-> horarioAtual,
                  veiculos |-> embarcados, filaRestante |-> Len(fila')])
    /\ pc' = "travessia"
    /\ UNCHANGED << config, processados, horarioAtual, idx, ticks, proximoId,
                    temporizadores, resultados, anterior,
                    metodo, percentualReservas, semReservas, melhorias,
                    padrao, resultadoSemReserva, relatorio >>

\* Variant of Desembarque after which the forEach visits the same vessel again.
Desembarque_SemAvancar ==
    /\ pc = "travessia"
    /\ LET emb == embarcacoes[idx]
           horarioDesembarque == horarioAtual + config.tempoTravessiaMinutos
           veiculosDesembarcados == Desembarcados(emb, horarioDesembarque)
       IN  /\ processados' = processados \o veiculosDesembarcados
           /\ embarcacoes' = [embarcacoes EXCEPT ![idx] =
                 [desembarcar(emb, horarioDesembarque) EXCEPT
                    !.tempoTotalOcupado = @ + config.tempoTravessiaMinutos]]
           /\ eventos' = Append(eventos,
                 [tipo |-> "desembarque", embarcacao |-> emb.id,
                  horario |-> horarioDesembarque,
                  veiculos |-> Len(veiculosDesembarcados)])
    /\ pc' = "forEach"
    /\ UNCHANGED << config, fila, horarioAtual, idx, ticks, proximoId, temporizadores,
                    resultados, anterior,
                    sorteios, metodo, percentualReservas, semReservas, melhorias,
                    padrao, resultadoSemReserva, relatorio >>

\* The rest of the same callback: crossing, desembarcar, 'desembarque' event.
Desembarque ==
    /\ pc = "travessia"
    /\ LET emb == embarcacoes[idx]
           horarioDesembarque == horarioAtual + config.tempoTravessiaMinutos
           veiculosDesembarcados == Desembarcados(emb, horarioDesembarque)
       IN  /\ processados' = processados \o veiculosDesembarcados
           /\ embarcacoes' = [embarcacoes EXCEPT ![idx] =
                 [desembarcar(emb, horarioDesembarque) EXCEPT
                    !.tempoTotalOcupado = @ + config.tempoTravessiaMinutos]]
           /\ eventos' = Append(eventos,
                 [tipo |-> "desembarque", embarcacao |-> emb.id,
                  horario |-> horarioDesembarque,
                  veiculos |-> Len(veiculosDesembarcados)])
    /\ pc' = "forEach"
    /\ idx' = idx + 1
    /\ UNCHANGED << config, fila, horarioAtual, ticks, proximoId, temporizadores,
                    resultados, anterior,
                    sorteios, metodo, percentualReservas, semReservas, melhorias,
                    padrao, resultadoSemReserva, relatorio >>

\* The callback for a vessel that neither fails nor boards.
SemEmbarque ==
    /\ pc = "forEach"
    /\ idx <= Len(embarcacoes)
    /\ ~AposVerificacao(embarcacoes[idx], horarioAtual).emManutencao
    /\ \E r \in MathRandom :
         /\ ~SorteioFalha(config, r)
         /\ sorteios' = Append(sorteios, r)
    /\ ~PodeEmbarcar(embarcacoes[idx], fila)
    /\ idx' = idx + 1
    /\ UNCHANGED << config, embarcacoes, fila, processados, eventos, horarioAtual,
                    pc, ticks, proximoId, temporizadores, resultados, anterior,
                    metodo, percentualReservas, semReservas, melhorias,
                    padrao, resultadoSemReserva, relatorio >>

\* this.horarioAtual += this.config.frequenciaSaidaMinutos
AvancarTempo ==
    /\ pc = "forEach"
    /\ idx > Len(embarcacoes)
    /\ horarioAtual' = horarioAtual + config.frequenciaSaidaMinutos
    /\ pc' = "loop"
    /\ UNCHANGED << config, embarcacoes, fila, processados, eventos, idx, ticks,
                    proximoId, temporizadores, resultados, anterior,
                    sorteios, metodo, percentualReservas, semReservas, melhorias,
                    padrao, resultadoSemReserva, relatorio >>

----------------------------------------------------------------------------
(* SimuladorFerries: final metrics *)

\* q * c for a quotient q and an integer c > 0.
Vezes(q, c) == IF q.k = "num" THEN Div(q.n * c, q.d) ELSE q

temposEspera(proc) == [i \in 1..Len(proc) |-> proc[i].tempoEspera]

tempoMedioEspera(proc) ==
    IF Len(proc) > 0 THEN Div(SumSeq(temposEspera(proc)), Len(proc)) ELSE Div(0, 1)

tempoMaximoEspera(proc) ==
    IF Len(proc) > 0 THEN MaxSeq(temposEspera(proc)) ELSE 0

tempoTotalSimulacao(cfg) == horarioFinal(cfg) - cfg.horarioInicio * 60

\* (emb.tempoTotalOcupado / tempoTotalSimulacao) * 100
percentualUtilizacao(cfg, emb) ==
    Vezes(Div(emb.tempoTotalOcupado, tempoTotalSimulacao(cfg)), 100)

utilizacaoEmbarcacoes(cfg, embs) ==
    [i \in 1..Len(embs) |->
        [ id                   |-> embs[i].id,
          percentualUtilizacao |-> percentualUtilizacao(cfg, embs[i]),
          viagensRealizadas    |-> embs[i].viagensRealizadas ]]

Metricas(cfg, embs, f, proc, evs) ==
    [ tempoSimulacao        |-> Div(tempoTotalSimulacao(cfg), 60),
      veiculosProcessados   |-> Len(proc),
      veiculosEmFila        |-> Len(f),
      tempoMedioEspera      |-> tempoMedioEspera(proc),
      tempoMaximoEspera     |-> tempoMaximoEspera(proc),
      utilizacaoEmbarcacoes |-> utilizacaoEmbarcacoes(cfg, embs),
      viagensRealizadas     |-> SumSeq([i \in 1..Len(embs) |-> embs[i].viagensRealizadas]),
      eventos               |-> evs ]

\* The loop condition is false: the metrics are computed and returned.
CalcularMetricas ==
    /\ pc = "loop"
    /\ ~(horarioAtual < horarioFinal(config))
    /\ resultados' = Metricas(config, embarcacoes, fila, processados, eventos)
    /\ pc' = "done"
    /\ UNCHANGED << config, embarcacoes, fila, processados, eventos, horarioAtual,
                    idx, ticks, proximoId, temporizadores, anterior,
                    sorteios, metodo, percentualReservas, semReservas, melhorias,
                    padrao, resultadoSemReserva, relatorio >>

\* Variant of Reparo in which the timer callback may also run between two
\* ticks of the loop.
Reparo_EntreTicks ==
    /\ \/ pc = "done" /\ metodo = "processar"
       \/ pc = "retornou" /\ (resultadoSemReserva = << >> \/ relatorio # << >>)
       \/ pc = "loop"
    /\ temporizadores # << >>
    /\ embarcacoes' = [embarcacoes EXCEPT ![Head(temporizadores)].disponivel = TRUE]
    /\ temporizadores' = Tail(temporizadores)
    /\ UNCHANGED << config, fila, processados, eventos, horarioAtual, pc, idx,
                    ticks, proximoId, resultados, anterior,
                    sorteios, metodo, percentualReservas, semReservas, melhorias,
                    padrao, resultadoSemReserva, relatorio >>

\* The repair callback given to setTimeout: it runs once the synchronous
\* call has returned (processar, simularComReservas, or gerarRelatorio when
\* that is the caller), in the order the timers were set.
Reparo ==
    /\ \/ pc = "done" /\ metodo = "processar"
       \/ pc = "retornou" /\ (resultadoSemReserva = << >> \/ relatorio # << >>)
    /\ temporizadores # << >>
    /\ embarcacoes' = [embarcacoes EXCEPT ![Head(temporizadores)].disponivel = TRUE]
    /\ temporizadores' = Tail(temporizadores)
    /\ UNCHANGED << config, fila, processados, eventos, horarioAtual, pc, idx,
                    ticks, proximoId, resultados, anterior,
                    sorteios, metodo, percentualReservas, semReservas, melhorias,
                    padrao, resultadoSemReserva, relatorio >>

\* A second invocation with the same configuration: a fresh simulator and
\* processar() again, the first result being kept for comparison.
NovaSimulacao ==
    /\ pc = "done"
    /\ metodo = "processar"
    /\ anterior = << >>
    /\ anterior' = << resultados >>
    /\ config' = config
    /\ embarcacoes' = [i \in 1..Max(config.numEmbarcacoes, 0) |-> Embarcacao(i)]
    /\ fila' = << >>
    /\ processados' = << >>
    /\ eventos' = << >>
    /\ horarioAtual' = config.horarioInicio * 60
    /\ pc' = "loop"
    /\ idx' = 1
    /\ ticks' = 0
    /\ proximoId' = 1
    /\ temporizadores' = << >>
    /\ resultados' = ResultadosIniciais
    /\ sorteios' = << >>
    /\ padrao' = PadraoAposConstrutor(padrao, config)
    /\ UNCHANGED << metodo, percentualReservas, semReservas, melhorias,
                    resultadoSemReserva, relatorio >>

Next ==
    \/ GerarChegada
    \/ GerarSemFim
    \/ EmManutencao
    \/ Falha
    \/ Embarque
    \/ Desembarque
    \/ SemEmbarque
    \/ AvancarTempo
    \/ CalcularMetricas
    \/ Reparo

Spec == Init /\ [][Next]_vars

\* The configurations section 7 of the specification accepts: vessel count,
\* capacity and step size positive, window end after window start.
ConfigValida(cfg) ==
    /\ cfg.numEmbarcacoes > 0
    /\ cfg.capacidadeVeiculos > 0
    /\ cfg.frequenciaSaidaMinutos > 0
    /\ cfg.horarioFim > cfg.horarioInicio

\* The runs of the configurations section 7 accepts.
InitValida ==
    /\ \E cfg \in { c \in Configs : ConfigValida(c) } : Construido(cfg)
    /\ anterior = << >>
    /\ Chamada("processar", 0)

SpecValida == InitValida /\ [][Next]_vars

\* The configurations explored when two runs are compared: those with fewer
\* daily vehicles than the default.
ConfigsComparadas == { c \in Configs : c.veiculosDiarios < CONFIG.veiculosDiarios }

\* Two invocations in a row with the same configuration, for the
\* configurations section 7 accepts.
NextRepetida == Next \/ NovaSimulacao

InitRepetida ==
    /\ \E cfg \in { c \in ConfigsComparadas : ConfigValida(c) } : Construido(cfg)
    /\ anterior = << >>
    /\ Chamada("processar", 0)

SpecRepetida == InitRepetida /\ [][NextRepetida]_vars

----------------------------------------------------------------------------
(* SimuladorFerries.simularComReservas *)

\* The reservation rates given to simularComReservas, hundredths; 30 is the
\* default of the parameter.
PercentuaisReservas == {0, 30, 50}

\* Variant of ConfigComReservas that also switches the failure draw off.
ConfigComReservas_SemFalhas(cfg, p) ==
    [cfg EXCEPT !.percentualPico = (cfg.percentualPico * (100 - p)) \div 100,
                !.taxaFalhas = 0]

\* percentualPico * (1 - percentualReservas), hundredths (exact for the
\* rates explored).
ConfigComReservas(cfg, p) ==
    [cfg EXCEPT !.percentualPico = (cfg.percentualPico * (100 - p)) \div 100]

\* Variant of FilaComReservas: the second run goes on with the queue the
\* baseline left.
FilaComReservas_NaoLimpa(f) == f

\* The queue the with-reservations simulator starts with.
FilaComReservas(f) == << >>

\* Variant of ResultadoAposReset: the reset empties the event log in place
\* (this.eventos.length = 0), the array the baseline result refers to.
ResultadoAposReset_EsvaziaEventos(res) == [res EXCEPT !.eventos = << >>]

\* The baseline result after the reset of lines 470-477: its `eventos` is
\* the array this.eventos referred to (line 446), and the reset binds
\* this.eventos, this.fila and this.veiculosProcessados to new arrays and
\* puts new vessels in this.embarcacoes, so the result keeps its value.
ResultadoAposReset(res) == res

\* The baseline processar() has returned: the caller's simulator is reset
\* and a new simulator is built with configComReservas; its processar()
\* starts.  The timers of the baseline hold vessels no simulator keeps.
IniciarComReservas ==
    /\ pc = "done"
    /\ metodo = "simularComReservas"
    /\ semReservas = << >>
    /\ semReservas' = << [resultados |-> ResultadoAposReset(resultados),
                          sorteios   |-> sorteios] >>
    /\ config' = ConfigComReservas(config, percentualReservas)
    /\ padrao' = PadraoAposConstrutor(padrao, ConfigComReservas(config, percentualReservas))
    /\ embarcacoes' = [i \in 1..Max(config.numEmbarcacoes, 0) |-> Embarcacao(i)]
    /\ fila' = FilaComReservas(fila)
    /\ processados' = << >>
    /\ eventos' = << >>
    /\ horarioAtual' = config.horarioInicio * 60
    /\ pc' = "loop"
    /\ idx' = 1
    /\ ticks' = 0
    /\ proximoId' = 1
    /\ temporizadores' = << >>
    /\ resultados' = ResultadosIniciais
    /\ sorteios' = << >>
    /\ UNCHANGED << anterior, metodo, percentualReservas, melhorias,
                    resultadoSemReserva, relatorio >>

\* utilizacaoEmbarcacoes.reduce((acc, emb) => acc + emb.percentualUtilizacao, 0)
RECURSIVE SomaUtilizacao(_, _)
SomaUtilizacao(u, n) ==
    IF n = 0 THEN Div(0, 1)
    ELSE Soma(SomaUtilizacao(u, n - 1), u[n].percentualUtilizacao)

\* The mean utilization simularComReservas reports: the reduce over length.
utilizacaoMedia(res) ==
    Sobre(SomaUtilizacao(res.utilizacaoEmbarcacoes, Len(res.utilizacaoEmbarcacoes)),
          Len(res.utilizacaoEmbarcacoes))

\* The relative wait reduction before it is formatted.
reducaoTempoEspera(sem, com) ==
    LET q == Quociente(Menos(sem.tempoMedioEspera, com.tempoMedioEspera),
                       sem.tempoMedioEspera)
    IN  Vezes(q, 100)

\* The object `melhorias` of the value simularComReservas returns.
Melhorias(sem, com) ==
    [ reducaoTempoEspera |-> ToFixed2(reducaoTempoEspera(sem, com)),
      reducaoFila        |-> sem.veiculosEmFila - com.veiculosEmFila,
      melhoriaUtilizacao |-> ToFixed2(utilizacaoMedia(com)) ]

\* The second processar() has returned: simularComReservas returns.
RetornarMelhorias ==
    /\ pc = "done"
    /\ metodo = "simularComReservas"
    /\ semReservas # << >>
    /\ melhorias' = << Melhorias(semReservas[1].resultados, resultados) >>
    /\ pc' = "retornou"
    /\ UNCHANGED << config, embarcacoes, fila, processados, eventos, horarioAtual,
                    idx, ticks, proximoId, temporizadores, resultados, anterior,
                    sorteios, metodo, percentualReservas, semReservas,
                    padrao, resultadoSemReserva, relatorio >>

NextReservas == Next \/ IniciarComReservas \/ RetornarMelhorias

InitReservas ==
    /\ \E cfg \in ConfigsComparadas : Construido(cfg)
    /\ anterior = << >>
    /\ \E p \in PercentuaisReservas : Chamada("simularComReservas", p)

SpecReservas == InitReservas /\ [][NextReservas]_vars

\* simularComReservas() with the default rate, for the configurations
\* section 7 accepts.
InitReservasValida ==
    /\ \E cfg \in { c \in ConfigsComparadas : ConfigValida(c) } : Construido(cfg)
    /\ anterior = << >>
    /\ Chamada("simularComReservas", 30)

SpecReservasValida == InitReservasValida /\ [][NextReservas]_vars

----------------------------------------------------------------------------
(* GeradorRelatorios.gerarRelatorio (relatorios module) *)

\* The rate gerarRelatorio gives to simularComReservas (0.3), hundredths.
PercentualRelatorio == 30

\* Math.max(0, q)
MathMax0(q) ==
    IF q.k = "num" THEN (IF q.n < 0 THEN Div(0, 1) ELSE q)
    ELSE IF q.k = "-Infinity" THEN Div(0, 1)
    ELSE q

\* Math.min(100, q)
MathMin100(q) ==
    IF q.k = "num" THEN (IF q.n > 100 * q.d THEN Div(100, 1) ELSE q)
    ELSE IF q.k = "Infinity" THEN Div(100, 1)
    ELSE q

\* q || 0: NaN and zero give 0.
OuZero(q) ==
    IF q.k = "NaN" \/ (q.k = "num" /\ q.n = 0) THEN Div(0, 1) ELSE q

\* Number.prototype.toFixed(2) inside the template `${...} min`.
ToFixed2Min(q) ==
    [texto      |-> IF q.k = "num" THEN "num min" ELSE q.k \o " min",
     centesimos |-> ToFixed2(q).centesimos]

\* lista.reduce((acc, e) => acc + Math.min(100, e.percentualUtilizacao), 0)
RECURSIVE SomaUtilizacaoLimitada(_, _)
SomaUtilizacaoLimitada(u, n) ==
    IF n = 0 THEN Div(0, 1)
    ELSE Soma(SomaUtilizacaoLimitada(u, n - 1), MathMin100(u[n].percentualUtilizacao))

\* GeradorRelatorios._mediaUtilizacao
mediaUtilizacao(lista) ==
    IF Len(lista) = 0 THEN Div(0, 1)
    ELSE Sobre(SomaUtilizacaoLimitada(lista, Len(lista)), Len(lista))

\* The report object built from the two results; dataGeracao (the wall
\* clock) and the section `manutencao` are left out.
Relatorio(sem, com) ==
    LET tempoMedioSem == MathMax0(sem.tempoMedioEspera)
        tempoMedioCom == MathMax0(com.tempoMedioEspera)
        utilizacaoMediaSem == mediaUtilizacao(sem.utilizacaoEmbarcacoes)
        utilizacaoMediaCom == mediaUtilizacao(com.utilizacaoEmbarcacoes)
        reducao == OuZero(Vezes(Quociente(Menos(tempoMedioSem, tempoMedioCom),
                                          tempoMedioSem), 100))
        melhoriaUtilizacao == Menos(utilizacaoMediaCom, utilizacaoMediaSem)
    IN  [ resumoGeral |->
            [ tempoMedioEspera    |-> ToFixed2Min(tempoMedioSem),
              veiculosProcessados |-> sem.veiculosProcessados,
              utilizacaoMedia     |-> ToFixed2(utilizacaoMediaSem),
              viagensRealizadas   |-> sem.viagensRealizadas ],
          comparativoReservas |->
            [ reducaoTempoEspera             |-> ToFixed2(reducao),
              melhoriaUtilizacao             |-> ToFixed2(melhoriaUtilizacao),
              veiculosProcessadosComReservas |-> com.veiculosProcessados,
              tempoMedioComReservas          |-> ToFixed2Min(tempoMedioCom) ],
          detalhesServidores |->
            [ i \in 1..Len(sem.utilizacaoEmbarcacoes) |->
                [ embarcacao |-> sem.utilizacaoEmbarcacoes[i].id,
                  utilizacao |-> ToFixed2(MathMin100(
                                   sem.utilizacaoEmbarcacoes[i].percentualUtilizacao)),
                  viagens    |-> sem.utilizacaoEmbarcacoes[i].viagensRealizadas ] ] ]

\* The normal simulation of gerarRelatorio has returned: its result is kept,
\* a second simulator is built like the first and its
\* simularComReservas(0.3) starts with the baseline processar().
SimularComReservasDoRelatorio ==
    /\ pc = "done"
    /\ metodo = "gerarRelatorio"
    /\ resultadoSemReserva' = << resultados >>
    /\ metodo' = "simularComReservas"
    /\ percentualReservas' = PercentualRelatorio
    /\ config' = config
    /\ padrao' = PadraoAposConstrutor(padrao, config)
    /\ embarcacoes' = [i \in 1..Max(config.numEmbarcacoes, 0) |-> Embarcacao(i)]
    /\ fila' = << >>
    /\ processados' = << >>
    /\ eventos' = << >>
    /\ horarioAtual' = config.horarioInicio * 60
    /\ pc' = "loop"
    /\ idx' = 1
    /\ ticks' = 0
    /\ proximoId' = 1
    /\ temporizadores' = << >>
    /\ resultados' = ResultadosIniciais
    /\ sorteios' = << >>
    /\ UNCHANGED << anterior, semReservas, melhorias, relatorio >>

\* simularComReservas has returned to gerarRelatorio: the report is built
\* from the normal result and the with-reservations result.
GerarRelatorio ==
    /\ pc = "retornou"
    /\ resultadoSemReserva # << >>
    /\ relatorio = << >>
    /\ relatorio' = << Relatorio(resultadoSemReserva[1], resultados) >>
    /\ UNCHANGED << config, embarcacoes, fila, processados, eventos, horarioAtual,
                    pc, idx, ticks, proximoId, temporizadores, resultados, anterior,
                    sorteios, metodo, percentualReservas, semReservas, melhorias,
                    padrao, resultadoSemReserva >>

NextRelatorio == NextReservas \/ SimularComReservasDoRelatorio \/ GerarRelatorio

\* The simulators of gerarRelatorio are built without overrides.  The runs
\* explored are those of the defaults shrunk as in the other runs, with one
\* vessel (three runs are made for one report).
ConfigsRelatorio ==
    { c \in Configs : ConfigValida(c) /\ c.numEmbarcacoes = 1 }

InitRelatorio ==
    /\ \E cfg \in ConfigsRelatorio : Construido(cfg)
    /\ anterior = << >>
    /\ Chamada("gerarRelatorio", PercentualRelatorio)

SpecRelatorio == InitRelatorio /\ [][NextRelatorio]_vars

----------------------------------------------------------------------------
(* Properties *)

\* Comparisons of a quotient with an integer; every comparison with NaN is false.
GeqInt(q, c) ==
    CASE q.k = "num"       -> q.n >= c * q.d
      [] q.k = "Infinity"  -> TRUE
      [] OTHER             -> FALSE
LeqInt(q, c) ==
    CASE q.k = "num"       -> q.n <= c * q.d
      [] q.k = "-Infinity" -> TRUE
      [] OTHER             -> FALSE
EqInt(q, c) == q.k = "num" /\ q.n = c * q.d

\* The sum of the 'quantidade' of the 'chegada' events of a log.
TotalChegadas(evs) ==
    SumSeq([i \in 1..Len(evs) |->
              IF evs[i].tipo = "chegada" THEN evs[i].quantidade ELSE 0])

\* C1 (conservation): at the end of every tick and at the end of processar,
\* processed history + pending queue = vehicles generated so far (the Veiculo
\* objects constructed, which is the sum of the 'quantidade' of the arrival
\* events), and the returned veiculosProcessados + veiculosEmFila equals the
\* sum of the 'quantidade' of all arrivals.
C1_Conservacao ==
    /\ pc \in {"loop", "done"} =>
         /\ Len(processados) + Len(fila) = proximoId - 1
         /\ Len(processados) + Len(fila) = TotalChegadas(eventos)
    /\ pc = "done" =>
         resultados.veiculosProcessados + resultados.veiculosEmFila
            = TotalChegadas(resultados.eventos)

\* C1 witness: a run has returned with vehicles processed and vehicles
\* still queued, which the result reports as unserved.
C1_Witness ==
    /\ pc = "done"
    /\ resultados.veiculosProcessados > 0
    /\ resultados.veiculosEmFila > 0

\* C2 (non-negativity), as claimed: every processed vehicle has
\* tempoEspera >= 0, and the returned mean and maximum wait are >= 0.
C2_EsperaNaoNegativa ==
    /\ \A i \in 1..Len(processados) : processados[i].tempoEspera >= 0
    /\ pc = "done" =>
         /\ GeqInt(resultados.tempoMedioEspera, 0)
         /\ resultados.tempoMaximoEspera >= 0

\* C3 (utilization bound), as claimed: in the result of processar every
\* vessel's percentualUtilizacao lies in [0, 100].
C3_UtilizacaoLimitada ==
    pc = "done" =>
      \A i \in 1..Len(resultados.utilizacaoEmbarcacoes) :
         /\ GeqInt(resultados.utilizacaoEmbarcacoes[i].percentualUtilizacao, 0)
         /\ LeqInt(resultados.utilizacaoEmbarcacoes[i].percentualUtilizacao, 100)

\* C4 (capacity respect): at any moment a vessel holds at most `capacidade`
\* vehicles, and every 'embarque' event counts at most the capacidade of
\* its vessel.
C4_RespeitaCapacidade ==
    /\ \A i \in 1..Len(embarcacoes) :
         Len(embarcacoes[i].veiculosAbordo) <= embarcacoes[i].capacidade
    /\ \A j \in 1..Len(eventos) :
         eventos[j].tipo = "embarque" =>
            eventos[j].veiculos <= embarcacoes[eventos[j].embarcacao].capacidade

\* C4 witness: a vessel has boarded exactly its capacity and vehicles that
\* did not fit are still queued.
C4_Witness ==
    /\ pc = "travessia"
    /\ Len(embarcacoes[idx].veiculosAbordo) = embarcacoes[idx].capacidade
    /\ Len(fila) > 0

\* C5 (capacity is a recognized configuration field), as claimed: every
\* vessel of a run has the capacity of the run's configuration, and no
\* crossing carries more vehicles than that.
C5_CapacidadeConfigurada ==
    \A i \in 1..Len(embarcacoes) :
       /\ embarcacoes[i].capacidade = config.capacidadeVeiculos
       /\ Len(embarcacoes[i].veiculosAbordo) <= config.capacidadeVeiculos

\* C6 (dispatch size): a dispatch of an available, empty vessel at a tick
\* with R queued vehicles boards exactly min(capacidade, R) of them, the
\* first ones of the queue, leaves exactly R - min(capacidade, R) queued in
\* their order, and gives every boarded vehicle horarioEmbarque = the tick
\* time.
C6_TamanhoDoDespacho ==
    [][ (pc = "forEach" /\ pc' = "travessia") =>
          LET emb == embarcacoes[idx]
              R == Len(fila)
              n == Min(emb.capacidade, R)
              abordo == embarcacoes'[idx].veiculosAbordo
          IN  /\ emb.disponivel /\ Len(emb.veiculosAbordo) = 0
              /\ Len(abordo) = n
              /\ Len(fila') = R - n
              /\ \A i \in 1..Len(abordo) :
                   /\ abordo[i].id = fila[i].id
                   /\ abordo[i].horarioEmbarque = horarioAtual
              /\ \A i \in 1..Len(fila') : fila'[i] = fila[n + i] ]_vars

\* C6 witness: capacity 50 and 120 queued, 50 have boarded with the same
\* boarding time and 70 remain.
C6_Witness ==
    /\ pc = "travessia"
    /\ Len(embarcacoes[idx].veiculosAbordo) = 50
    /\ Len(fila) = 70
    /\ \A i \in 1..50 :
         embarcacoes[idx].veiculosAbordo[i].horarioEmbarque = horarioAtual

\* C7 (zero-arrival boundary), as claimed: a run with veiculosDiarios = 0
\* returns veiculosProcessados = 0, veiculosEmFila = 0, viagensRealizadas = 0,
\* utilization 0 for every vessel, mean and maximum wait 0.
C7_SemChegadas ==
    (pc = "done" /\ config.veiculosDiarios = 0) =>
       /\ resultados.veiculosProcessados = 0
       /\ resultados.veiculosEmFila = 0
       /\ resultados.viagensRealizadas = 0
       /\ \A i \in 1..Len(resultados.utilizacaoEmbarcacoes) :
            EqInt(resultados.utilizacaoEmbarcacoes[i].percentualUtilizacao, 0)
       /\ EqInt(resultados.tempoMedioEspera, 0)
       /\ resultados.tempoMaximoEspera = 0

\* C8 (configuration errors), as claimed: with vessel count <= 0,
\* capacity <= 0, step size <= 0 or window end <= start, no tick is executed
\* and no metrics are returned.
C8_ConfiguracaoRecusada ==
    ~ConfigValida(config) => (ticks = 0 /\ pc # "done")

\* ceil((horarioFim*60 - horarioInicio*60) / step), zero when end <= start.
TicksEsperados(cfg) ==
    LET janela == horarioFinal(cfg) - cfg.horarioInicio * 60
        passo == cfg.frequenciaSaidaMinutos
    IN  IF janela <= 0 THEN 0 ELSE (janela + passo - 1) \div passo

\* C9 (termination), as claimed: with a step size > 0 processar goes on
\* until it returns, and it returns after exactly TicksEsperados ticks,
\* the clock having advanced from the window start by the step to a value
\* >= horarioFim*60.
C9_Terminacao ==
    config.frequenciaSaidaMinutos > 0 =>
       /\ pc = "done" \/ ENABLED Next
       /\ pc = "done" =>
            /\ ticks = TicksEsperados(config)
            /\ horarioAtual = config.horarioInicio * 60
                                + ticks * config.frequenciaSaidaMinutos
            /\ horarioAtual >= horarioFinal(config)

\* C10 (determinism), as claimed: two invocations with the same
\* configuration return identical results.
C10_Determinismo ==
    (pc = "done" /\ anterior # << >>) => resultados = anterior[1]

\* C11 (comparison backlog): when simularComReservas(0.3) has returned and
\* its two runs received the same sequence of random draws, the backlog of
\* the with-reservations run is not larger than the backlog of the
\* baseline, and melhorias.reducaoFila >= 0.
C11_FilaNaoAumenta ==
    (pc = "retornou" /\ percentualReservas = 30
        /\ sorteios = semReservas[1].sorteios) =>
      /\ resultados.veiculosEmFila <= semReservas[1].resultados.veiculosEmFila
      /\ melhorias[1].reducaoFila >= 0

\* C11 witness: simularComReservas(0.3) returned after two runs with the
\* same draws in which vessels failed and vehicles were left unserved.
C11_Witness ==
    /\ pc = "retornou"
    /\ percentualReservas = 30
    /\ sorteios = semReservas[1].sorteios
    /\ Len(sorteios) > 0
    /\ semReservas[1].resultados.veiculosEmFila > 0
    /\ semReservas[1].resultados.veiculosProcessados > 0

\* C12 (comparison with zero baseline), as claimed: when the baseline mean
\* wait is 0, melhorias.reducaoTempoEspera is the text of zero, and
\* melhorias.melhoriaUtilizacao is the text of a number in every case, the
\* run without vessels included.
C12_MelhoriasDefinidas ==
    pc = "retornou" =>
      /\ EqInt(semReservas[1].resultados.tempoMedioEspera, 0) =>
            melhorias[1].reducaoTempoEspera = ToFixed2(Div(0, 1))
      /\ melhorias[1].melhoriaUtilizacao.texto = "num%"

\* C13 (comparison metrics), as claimed: melhorias.melhoriaUtilizacao is the
\* mean utilization of the with-reservations run minus the mean utilization
\* of the baseline, and melhorias.reducaoTempoEspera is
\* (baseline mean wait - with-reservations mean wait) / baseline mean wait * 100.
C13_MetricasDaComparacao ==
    pc = "retornou" =>
      LET sem == semReservas[1].resultados
          com == resultados
      IN  /\ melhorias[1].melhoriaUtilizacao =
                ToFixed2(Menos(utilizacaoMedia(com), utilizacaoMedia(sem)))
          /\ melhorias[1].reducaoTempoEspera =
                ToFixed2(Vezes(Quociente(Menos(sem.tempoMedioEspera,
                                               com.tempoMedioEspera),
                                         sem.tempoMedioEspera), 100))

\* The vehicles boarded so far: those processed and those on board.
VeiculosEmbarcados ==
    { processados[i] : i \in 1..Len(processados) } \cup
    UNION { { embarcacoes[e].veiculosAbordo[k] :
                 k \in 1..Len(embarcacoes[e].veiculosAbordo) } :
            e \in 1..Len(embarcacoes) }

\* C14 (ready set), as claimed: a vehicle is boarded only if its arrival
\* time is not after the time of the tick, so no boarded vehicle has
\* horarioChegada > horarioEmbarque.
C14_SoEmbarcaQuemChegou ==
    \A v \in VeiculosEmbarcados : v.horarioChegada <= v.horarioEmbarque

\* C15 (FIFO over the whole run), as claimed: for every step size the
\* pending queue is in nondecreasing order of arrival time, a vehicle that
\* arrived earlier than another is never boarded at a later tick than it,
\* and no vehicle is boarded while one that arrived earlier is left queued.
C15_FIFO ==
    /\ \A i, j \in 1..Len(fila) :
          i < j => fila[i].horarioChegada <= fila[j].horarioChegada
    /\ \A a, b \in VeiculosEmbarcados :
          a.horarioChegada < b.horarioChegada => a.horarioEmbarque <= b.horarioEmbarque
    /\ \A i \in 1..Len(fila) : \A b \in VeiculosEmbarcados :
          ~(fila[i].horarioChegada < b.horarioChegada)

\* C17 (tick ordering), as claimed: the vehicles generated at a tick are
\* queued before any vessel dispatches at that tick, and the maintenance
\* and failure checks update the availability of all vessels before any
\* vessel boards at that tick; in the event log, no 'chegada', 'falha',
\* 'manutencao_inicio' or 'manutencao_fim' event of a tick comes after an
\* 'embarque' event of the same tick.
C17_OrdemDoTick ==
    \A i, j \in 1..Len(eventos) :
       (i < j /\ eventos[i].tipo = "embarque"
              /\ eventos[j].tipo \in {"chegada", "falha", "manutencao_inicio",
                                       "manutencao_fim"})
         => eventos[j].horario # eventos[i].horario

\* C18 (every eligible vessel dispatches), as claimed: a callback of the
\* forEach that ends without boarding leaves a vessel that is not eligible
\* (unavailable, or not empty, or the queue is empty), the vessel whose
\* maintenance ends at that tick included.
C18_TodaElegivelEmbarca ==
    [][ (pc = "forEach" /\ pc' = "forEach" /\ idx' = idx + 1)
          => ~PodeEmbarcar(embarcacoes'[idx], fila') ]_vars

\* C19 (batch crossing): every dispatch at tick time t gives
\* horarioDesembarque = t + tempoTravessiaMinutos to all the vehicles it
\* boarded, appends exactly those vehicles to the processed history as one
\* batch, empties the vessel, adds 1 to viagensRealizadas and the crossing
\* time to tempoTotalOcupado; so in every state each vessel has
\* tempoTotalOcupado = viagensRealizadas * tempoTravessiaMinutos, and the
\* viagensRealizadas of the result is the sum of the vessels' counters.
C19_TravessiaEmLote ==
    /\ [][ pc = "travessia" =>
            LET abordo == embarcacoes[idx].veiculosAbordo
                t == horarioAtual
            IN  /\ processados' = processados \o
                      [k \in 1..Len(abordo) |->
                         [abordo[k] EXCEPT !.horarioDesembarque =
                                              t + config.tempoTravessiaMinutos]]
                /\ \A k \in 1..Len(abordo) : abordo[k].horarioEmbarque = t
                /\ embarcacoes'[idx].veiculosAbordo = << >>
                /\ embarcacoes'[idx].viagensRealizadas =
                      embarcacoes[idx].viagensRealizadas + 1
                /\ embarcacoes'[idx].tempoTotalOcupado =
                      embarcacoes[idx].tempoTotalOcupado + config.tempoTravessiaMinutos
                /\ \A e \in 1..Len(embarcacoes) :
                      e # idx => embarcacoes'[e] = embarcacoes[e] ]_vars
    /\ [](\A e \in 1..Len(embarcacoes) :
            embarcacoes[e].tempoTotalOcupado =
              embarcacoes[e].viagensRealizadas * config.tempoTravessiaMinutos)
    /\ [](pc = "done" =>
            /\ resultados.viagensRealizadas =
                 SumSeq([e \in 1..Len(embarcacoes) |-> embarcacoes[e].viagensRealizadas])
            /\ resultados.viagensRealizadas =
                 SumSeq([e \in 1..Len(resultados.utilizacaoEmbarcacoes) |->
                           resultados.utilizacaoEmbarcacoes[e].viagensRealizadas]))

\* C19 witness: a run has returned in which every vessel made trips, three
\* trips in all.
C19_Witness ==
    /\ pc = "done"
    /\ resultados.viagensRealizadas = 3
    /\ \A e \in 1..Len(embarcacoes) : embarcacoes[e].viagensRealizadas > 0
    /\ Len(processados) > 0

\* C20 (one crossing per vessel per tick): no vessel has made more trips
\* than ticks have been started, while a vessel that dispatched at a tick
\* may dispatch again at the next one.
C20_UmaViagemPorTick ==
    \A e \in 1..Len(embarcacoes) : embarcacoes[e].viagensRealizadas <= ticks

\* C20 witness: a vessel has dispatched at each of two consecutive ticks.
C20_Witness ==
    /\ ticks = 2
    /\ \E e \in 1..Len(embarcacoes) : embarcacoes[e].viagensRealizadas = 2

\* C21 (onboard invariant): a vessel holds vehicles only inside its own
\* dispatch, between boarding and landing, and then it is available and out
\* of maintenance; at every tick boundary and at the end of the run every
\* vessel is empty.
C21_AbordoSoNaTravessia ==
    /\ \A e \in 1..Len(embarcacoes) :
          Len(embarcacoes[e].veiculosAbordo) > 0 =>
            /\ pc = "travessia"
            /\ e = idx
            /\ embarcacoes[e].disponivel
            /\ ~embarcacoes[e].emManutencao
    /\ pc \in {"loop", "done"} =>
          \A e \in 1..Len(embarcacoes) : embarcacoes[e].veiculosAbordo = << >>

\* C21 witness: at the second tick a vessel that made a trip at the first
\* tick is between boarding and landing, with vehicles on board.
C21_Witness ==
    /\ pc = "travessia"
    /\ ticks = 2
    /\ Len(embarcacoes[idx].veiculosAbordo) > 0
    /\ embarcacoes[idx].viagensRealizadas = 1

\* C22 (no service while down): a callback that boards or lands is the
\* callback of a vessel that is available, not in maintenance (the
\* maintenance that becomes due at that tick included) and that has not
\* failed at that tick.
C22_SemServicoForaDeOperacao ==
    [][ ((pc = "forEach" /\ pc' = "travessia") \/ pc = "travessia") =>
          /\ embarcacoes[idx].disponivel
          /\ ~embarcacoes[idx].emManutencao
          /\ ~AposVerificacao(embarcacoes[idx], horarioAtual).emManutencao
          /\ \A i \in 1..Len(eventos') :
                ~(/\ eventos'[i].tipo = "falha"
                  /\ eventos'[i].embarcacao = embarcacoes[idx].id
                  /\ eventos'[i].horario = horarioAtual) ]_vars

\* C22 witness: at the second tick the callback of vessel 1, which failed
\* at the first tick, has ended without boarding and without a new failure
\* while vehicles wait in the queue.
C22_Witness ==
    /\ pc = "forEach"
    /\ idx = 2
    /\ ticks = 2
    /\ ~embarcacoes[1].disponivel
    /\ Len(fila) > 0
    /\ eventos[Len(eventos)].tipo = "chegada"
    /\ \E i \in 1..Len(eventos) :
          eventos[i].tipo = "falha" /\ eventos[i].embarcacao = 1

\* C23 (failure recovery), as claimed: a vessel that failed at time t is
\* available again at every tick of the window with current time >=
\* t + 30, when the forEach reaches it.
C23_RecuperaAposFalha ==
    (pc = "forEach" /\ idx <= Len(embarcacoes)) =>
      \A i \in 1..Len(eventos) :
         (/\ eventos[i].tipo = "falha"
          /\ eventos[i].embarcacao = embarcacoes[idx].id
          /\ horarioAtual >= eventos[i].horario + TempoReparo
          /\ ~embarcacoes[idx].emManutencao)
           => embarcacoes[idx].disponivel

\* C24 (failure checks skipped for vessels already down), as claimed: the
\* failure draw is made, and a 'falha' event recorded, only in the callback
\* of a vessel that is available and not in maintenance.
C24_SorteioSoParaDisponivel ==
    [][ (pc = "forEach" /\ idx <= Len(embarcacoes)
           /\ (Len(sorteios') > Len(sorteios)
                 \/ (Len(eventos') > Len(eventos)
                       /\ eventos'[Len(eventos')].tipo = "falha")))
          => /\ embarcacoes[idx].disponivel
             /\ ~AposVerificacao(embarcacoes[idx], horarioAtual).emManutencao ]_vars

\* C25 (mutual exclusion of downtime causes), as claimed: a vessel starts
\* scheduled maintenance only if it is available (a vessel that is failed
\* ignores the trigger), and no vessel in maintenance fails.
C25_ExclusaoMutua ==
    [][ /\ (pc = "forEach" /\ idx <= Len(embarcacoes)
              /\ ~embarcacoes[idx].emManutencao
              /\ \E i \in 1..Len(eventos') :
                    /\ i > Len(eventos)
                    /\ eventos'[i].tipo = "manutencao_inicio")
             => embarcacoes[idx].disponivel
        /\ (pc = "forEach" /\ idx <= Len(embarcacoes)
              /\ Len(eventos') > Len(eventos)
              /\ eventos'[Len(eventos')].tipo = "falha")
             => ~AposVerificacao(embarcacoes[idx], horarioAtual).emManutencao ]_vars

\* C26 (maintenance start), as claimed: the first maintenance of a vessel is
\* due at manutencaoDias * 1440 minutes, manutencaoDias being that of the
\* configuration given to the simulator, so a vessel that boards at a tick
\* at or after that time has entered maintenance before ('manutencao_inicio'
\* recorded for it).
C26_InicioDaManutencao ==
    \A j \in 1..Len(eventos) :
       (/\ eventos[j].tipo = "embarque"
        /\ eventos[j].horario >= config.manutencaoDias * 24 * 60)
         => \E i \in 1..j :
               /\ eventos[i].tipo = "manutencao_inicio"
               /\ eventos[i].embarcacao = eventos[j].embarcacao

\* C27 (maintenance end): in the callback of a vessel that is in maintenance
\* since time s (or enters it at this tick), the vessel stays in maintenance
\* and unavailable if the current time is before s + manutencaoHoras * 60;
\* otherwise it becomes available, leaves maintenance and its next
\* maintenance is set later than the following tick.
C27_FimDaManutencao ==
    [][ (pc = "forEach" /\ idx <= Len(embarcacoes)
           /\ AposVerificacao(embarcacoes[idx], horarioAtual).emManutencao) =>
          LET s == AposVerificacao(embarcacoes[idx], horarioAtual).ultimaManutencao
              depois == embarcacoes'[idx]
          IN  IF horarioAtual < s + config.manutencaoHoras * 60
                THEN depois.emManutencao /\ ~depois.disponivel
                ELSE /\ ~depois.emManutencao
                     /\ depois.disponivel
                     /\ depois.proximaManutencao >
                          horarioAtual + config.frequenciaSaidaMinutos ]_vars

\* C27 witness: a vessel whose maintenance ended at an earlier tick boards
\* at the following tick, out of maintenance.
C27_Witness ==
    /\ pc = "travessia"
    /\ ~embarcacoes[idx].emManutencao
    /\ \E i \in 1..Len(eventos) :
          /\ eventos[i].tipo = "manutencao_fim"
          /\ eventos[i].embarcacao = embarcacoes[idx].id
          /\ eventos[i].horario + config.frequenciaSaidaMinutos = horarioAtual

\* C28 (arrival count scaled to the step), as claimed: the number of
\* vehicles generated at a tick is round(veiculosDiarios / horasOperacao *
\* (step / 60) * multiplier), the multiplier being 2.5 at a peak hour and 1
\* otherwise.
C28_ChegadasPorPasso ==
    [][ (pc = "loop" /\ pc' = "forEach") =>
          LET num == config.veiculosDiarios * config.frequenciaSaidaMinutos
              den == config.horasOperacao * MinutosPorHora
              esperado == IF ehHorarioPico(config, horarioAtual)
                            THEN MathRound(Div(num * MultiplicadorPicoNum,
                                               den * MultiplicadorPicoDen))
                            ELSE MathRound(Div(num, den))
          IN  EqInt(esperado, proximoId' - proximoId) ]_vars

\* C29 (arrival instant within the step), as claimed: every vehicle
\* generated at a tick of time t has its arrival time in [t, t + step).
C29_ChegadaDentroDoPasso ==
    [][ (pc = "loop" /\ pc' = "forEach") =>
          \A i \in (Len(fila) + 1)..Len(fila') :
             /\ fila'[i].horarioChegada >= horarioAtual
             /\ fila'[i].horarioChegada < horarioAtual + config.frequenciaSaidaMinutos ]_vars

\* The identifiers of the vehicles of a sequence.
Ids(veiculos) == { veiculos[i].id : i \in 1..Len(veiculos) }

\* C30 (vehicle lifecycle): no vehicle is twice in the processed history,
\* twice in the queue, or in both; every processed vehicle has been boarded
\* and landed; and the processed history only grows, the vehicles in it
\* keeping their horarioEmbarque, horarioDesembarque and tempoEspera.
C30_CicloDoVeiculo ==
    /\ [](/\ Cardinality(Ids(processados)) = Len(processados)
          /\ Cardinality(Ids(fila)) = Len(fila)
          /\ Ids(processados) \cap Ids(fila) = {}
          /\ \A e \in 1..Len(embarcacoes) :
                Ids(embarcacoes[e].veiculosAbordo) \cap Ids(processados) = {}
          /\ \A i \in 1..Len(processados) :
                /\ processados[i].horarioEmbarque # null
                /\ processados[i].horarioDesembarque # null
          /\ \A i \in 1..Len(fila) :
                fila[i].horarioEmbarque = null /\ fila[i].horarioDesembarque = null)
    /\ [][ /\ Len(processados') >= Len(processados)
           /\ SubSeq(processados', 1, Len(processados)) = processados ]_vars

\* C30 witness: vehicles of two trips are in the processed history while
\* other vehicles wait in the queue.
C30_Witness ==
    /\ Len(fila) > 0
    /\ \E i, j \in 1..Len(processados) :
          processados[i].horarioEmbarque # processados[j].horarioEmbarque

\* C33 (no empty trips): every 'embarque' event counts at least 1 and at
\* most the capacidade of its vessel; the trips made never exceed the
\* vehicles processed; and a vessel's viagensRealizadas changes only in the
\* landing of a dispatch that boarded at least one vehicle, by one, all the
\* vehicles aboard being processed.
C33_SemViagemVazia ==
    /\ [](/\ \A j \in 1..Len(eventos) :
                eventos[j].tipo = "embarque" =>
                   /\ eventos[j].veiculos >= 1
                   /\ eventos[j].veiculos <=
                         embarcacoes[eventos[j].embarcacao].capacidade
          /\ SumSeq([i \in 1..Len(embarcacoes) |-> embarcacoes[i].viagensRealizadas])
                <= Len(processados)
          /\ (pc = "done" =>
                resultados.viagensRealizadas <= resultados.veiculosProcessados))
    /\ [][ \A i \in 1..Len(embarcacoes) :
             embarcacoes'[i].viagensRealizadas # embarcacoes[i].viagensRealizadas =>
                /\ pc = "travessia" /\ i = idx
                /\ embarcacoes'[i].viagensRealizadas =
                      embarcacoes[i].viagensRealizadas + 1
                /\ Len(embarcacoes[i].veiculosAbordo) >= 1
                /\ Len(processados') =
                      Len(processados) + Len(embarcacoes[i].veiculosAbordo) ]_vars

\* C33 witness: a finished run of several trips that carried one vehicle
\* each, as many trips as processed vehicles.
C33_Witness ==
    /\ pc = "done"
    /\ resultados.viagensRealizadas >= 2
    /\ resultados.viagensRealizadas = resultados.veiculosProcessados

\* C34 (greedy dispatch in vessel-id order): the boardings of one tick are
\* recorded in increasing vessel id, and all but the last of them are of
\* exactly the vessel's capacidade; when a vessel boards, every lower-id
\* vessel that is available and had neither a failure nor a maintenance end
\* at this tick has boarded its capacidade at this tick; and if vehicles are
\* queued when the forEach of a tick is over, every boarding of that tick
\* was of the vessel's capacidade.
C34_DespachoGuloso ==
    /\ [](/\ \A a, b \in 1..Len(eventos) :
                (/\ a < b
                 /\ eventos[a].tipo = "embarque" /\ eventos[b].tipo = "embarque"
                 /\ eventos[a].horario = eventos[b].horario)
                 => /\ eventos[a].embarcacao < eventos[b].embarcacao
                    /\ eventos[a].veiculos =
                          embarcacoes[eventos[a].embarcacao].capacidade
          /\ (pc = "forEach" /\ idx > Len(embarcacoes) /\ Len(fila) > 0) =>
                \A j \in 1..Len(eventos) :
                   (eventos[j].tipo = "embarque" /\ eventos[j].horario = horarioAtual)
                    => eventos[j].veiculos =
                          embarcacoes[eventos[j].embarcacao].capacidade)
    /\ [][ (pc = "forEach" /\ pc' = "travessia") =>
             \A i \in 1..(idx - 1) :
                (/\ embarcacoes[i].disponivel
                 /\ ~embarcacoes[i].emManutencao
                 /\ ~\E j \in 1..Len(eventos) :
                        /\ eventos[j].tipo = "manutencao_fim"
                        /\ eventos[j].embarcacao = embarcacoes[i].id
                        /\ eventos[j].horario = horarioAtual)
                 => \E j \in 1..Len(eventos) :
                        /\ eventos[j].tipo = "embarque"
                        /\ eventos[j].embarcacao = embarcacoes[i].id
                        /\ eventos[j].horario = horarioAtual
                        /\ eventos[j].veiculos = embarcacoes[i].capacidade ]_vars

\* C34 witness: the forEach of a tick is over, two vessels have boarded
\* their capacidade in id order and vehicles are still queued.
C34_Witness ==
    /\ pc = "forEach" /\ idx > Len(embarcacoes)
    /\ Len(fila) > 0
    /\ \E a, b \in 1..Len(eventos) :
          /\ a < b
          /\ eventos[a].tipo = "embarque" /\ eventos[a].embarcacao = 1
          /\ eventos[b].tipo = "embarque" /\ eventos[b].embarcacao = 2
          /\ eventos[a].horario = horarioAtual /\ eventos[b].horario = horarioAtual

C37_SemManutencaoEmUmDia ==
    horarioFinal(config) <= 30 * 1440 =>
       /\ \A i \in 1..Len(embarcacoes) :
             /\ ~embarcacoes[i].emManutencao
             /\ embarcacoes[i].proximaManutencao = 30 * 1440
       /\ \A j \in 1..Len(eventos) :
             eventos[j].tipo \notin {"manutencao_inicio", "manutencao_fim"}

\* C37 witness: a run whose configuration sets the maintenance interval to
\* one day has finished after boarding at a time later than that day,
\* without any maintenance.
C37_Witness ==
    /\ pc = "done"
    /\ config.manutencaoDias = 1
    /\ horarioFinal(config) <= 30 * 1440
    /\ \E j \in 1..Len(eventos) :
          /\ eventos[j].tipo = "embarque"
          /\ eventos[j].horario >= config.manutencaoDias * 1440

\* C38 (event log pairing): every 'embarque' event of the log is followed,
\* as the next event, by a 'desembarque' of the same vessel with the same
\* vehicle count and the embarque's horario plus tempoTravessiaMinutos (the
\* last event may be an 'embarque' only while its crossing is being made);
\* and the filaRestante of an 'embarque' is the queue length before the
\* boarding minus the vehicles boarded.
C38_ParesDeEventos ==
    /\ [](\A i \in 1..Len(eventos) :
             eventos[i].tipo = "embarque" =>
                IF i = Len(eventos)
                  THEN pc = "travessia"
                  ELSE /\ eventos[i + 1].tipo = "desembarque"
                       /\ eventos[i + 1].embarcacao = eventos[i].embarcacao
                       /\ eventos[i + 1].veiculos = eventos[i].veiculos
                       /\ eventos[i + 1].horario =
                             eventos[i].horario + config.tempoTravessiaMinutos)
    /\ [][ (pc = "forEach" /\ pc' = "travessia") =>
             LET e == eventos'[Len(eventos')]
             IN  /\ Len(eventos') = Len(eventos) + 1
                 /\ e.tipo = "embarque"
                 /\ e.filaRestante = Len(fila) - e.veiculos ]_vars

\* C38 witness: a finished run with a crossing of 30 minutes whose log has
\* an 'embarque' followed by its 'desembarque' 30 minutes later.
C38_Witness ==
    /\ pc = "done"
    /\ config.tempoTravessiaMinutos = 30
    /\ \E i \in 1..(Len(eventos) - 1) :
          /\ eventos[i].tipo = "embarque"
          /\ eventos[i + 1].tipo = "desembarque"
          /\ eventos[i + 1].horario = eventos[i].horario + 30

\* C39 (event log time order), as claimed: the events of a run are recorded
\* in nondecreasing order of their horario, no event having a time earlier
\* than an event recorded before it.
C39_LogEmOrdem ==
    \A i, j \in 1..Len(eventos) :
       i < j => eventos[i].horario <= eventos[j].horario

\* C31 (no shared mutable state between runs): the shared CONFIG keeps its
\* value whatever simulators are constructed and run; in simularComReservas
\* the with-reservations run starts with an empty queue, processed history
\* and event log, new vessels and no pending timer of the baseline, the
\* baseline result kept for the comparison is the one processar returned,
\* and it does not change while the second run executes.
C31_SemEstadoCompartilhado ==
    /\ [](padrao = CONFIG)
    /\ [][ (semReservas = << >> /\ semReservas' # << >>) =>
             /\ semReservas'[1].resultados = resultados
             /\ fila' = << >> /\ processados' = << >> /\ eventos' = << >>
             /\ temporizadores' = << >>
             /\ \A i \in 1..Len(embarcacoes') : embarcacoes'[i] = Embarcacao(i) ]_vars
    /\ [][ semReservas # << >> => semReservas' = semReservas ]_vars

\* C31 witness: simularComReservas returned; the baseline result kept has
\* events and processed vehicles, a vessel failed in the baseline, and the
\* second run made other draws and returned another result.
C31_Witness ==
    /\ pc = "retornou"
    /\ semReservas[1].resultados.veiculosProcessados > 0
    /\ \E i \in 1..Len(semReservas[1].resultados.eventos) :
          semReservas[1].resultados.eventos[i].tipo = "falha"
    /\ sorteios # semReservas[1].sorteios
    /\ resultados # semReservas[1].resultados
    /\ config # CONFIG

\* C32 (report bounds), as claimed: in the report of gerarRelatorio every
\* per-vessel utilization and the mean utilization are numbers in [0, 100],
\* the mean waiting times are numbers >= 0, and reducaoTempoEspera and
\* melhoriaUtilizacao are numbers in [0, 100].
C32_LimitesDoRelatorio ==
    relatorio # << >> =>
       LET r == relatorio[1]
           Percentual(x) == x.texto = "num%" /\ x.centesimos >= 0
                               /\ x.centesimos <= 100 * 100
       IN  /\ \A i \in 1..Len(r.detalhesServidores) :
                 Percentual(r.detalhesServidores[i].utilizacao)
           /\ Percentual(r.resumoGeral.utilizacaoMedia)
           /\ r.resumoGeral.tempoMedioEspera.texto = "num min"
           /\ r.resumoGeral.tempoMedioEspera.centesimos >= 0
           /\ r.comparativoReservas.tempoMedioComReservas.texto = "num min"
           /\ r.comparativoReservas.tempoMedioComReservas.centesimos >= 0
           /\ Percentual(r.comparativoReservas.reducaoTempoEspera)
           /\ Percentual(r.comparativoReservas.melhoriaUtilizacao)

====
